---- MODULE Spec2Model ----
(***************************************************************************)
(* A model of the OpenMP backend of PyOP2 (src/pyop2/openmp.py):           *)
(*   - ParLoop._compute: per part, requests a plan and calls the compiled  *)
(*     wrapper once per color, advancing the block offset;                 *)
(*   - ParLoop._get_plan / FakePlan: the degenerate single-color plan;     *)
(*   - JITModule._wrapper: one parallel region per call, a statically      *)
(*     scheduled loop over the blocks boffset .. boffset+nblocks-1, the    *)
(*     kernel loop of each block, thread-private intermediate globals      *)
(*     initialised at the start and written back at the end of the region; *)
(*   - Arg.c_reduction_init / c_reduction_finalisation: the initial value  *)
(*     and the combine expression of a global reduction.                   *)
(* One global reduction argument of cardinality 1 is modelled; the value   *)
(* of the global is gbl.                                                   *)
(***************************************************************************)
EXTENDS Integers, Sequences, FiniteSets, Bags, TLC

VARIABLES
    nthread,      \* omp_get_max_threads(): the size of the team
    is_indirect,  \* ParLoop._is_indirect
    access,       \* access descriptor of the global reduction argument
    parts,        \* the parts the caller passes to _compute, in order
    map,          \* indirection map: iteration -> set of written locations
    gbl0,         \* value of the global before the loop invocation
    fault_at,     \* the iteration at which the kernel fails, or NoFault
    gbl,          \* the global reduction target
    pc,           \* position of _compute: "idle", "colors", "call"
    ipart,        \* number of parts already executed
    plan,         \* plan of the current part
    c,            \* color loop variable of _compute
    boffset,      \* boffset of _compute
    jit_args,     \* self._jit_args[0..4]
    tpc,          \* position of each thread of the team
    bnext,        \* __b of each thread
    cur,          \* the block a thread is executing
    row,          \* thread-private intermediate global of each thread
    log,          \* bag of the block executions completed so far
    nplans,       \* number of plans requested
    ncalls,       \* number of wrapper calls (parallel regions opened)
    nwb,          \* number of write-backs into the global
    probe         \* input and result of _get_plan in SpecPlan

vars == <<nthread, is_indirect, access, parts, map, gbl0, fault_at, gbl, pc,
          ipart, plan, c, boffset, jit_args, tpc, bnext, cur, row, log, nplans,
          ncalls, nwb, probe>>

inputs == <<nthread, is_indirect, access, parts, map, gbl0, fault_at>>

(***************************************************************************)
(* Program constants and bounds of the model.                              *)
(***************************************************************************)
_max_threads == 32

part_size == 1024

\* cache line padding
_padding == 8

\* thread counts 1 .. MaxThreads are explored (and _max_threads + 1)
MaxThreads == 2

\* direct parts have up to MaxBlocks blocks of part_size iterations
MaxBlocks == 2

\* indirect loops have up to MaxIndSize iterations in total
MaxIndSize == 3

\* the caller passes 1 .. MaxParts parts
MaxParts == 2

\* indirectly written locations are 0 .. NumLocs-1
NumLocs == 2

\* reduction arguments of cardinality 1 .. MaxCdim are explored in SpecPad
MaxCdim == 17

\* SpecStatic: up to MaxStaticThreads threads share the up to MaxStaticBlocks
\* blocks of one color
MaxStaticThreads == 3

MaxStaticBlocks == 4

\* SpecSelect: partition sizes 1 .. MaxSelectPartSize (parts of up to
\* MaxIndSize iterations)
MaxSelectPartSize == 2

\* SpecFin: the rows of 1 .. MaxFinThreads threads, of 1 .. MaxFinCdim elements
MaxFinThreads == 3

MaxFinCdim == 2

\* bounds of the inputs of _get_plan in SpecPlan
MaxProbeSize == 7

MaxProbePartSize == 4

MaxProbeOffset == 2

INC == "INC"

MIN == "MIN"

MAX == "MAX"

Min2(a, b) == IF a < b THEN a ELSE b

\* math.ceil(a / float(b)) for integers a >= 0, b >= 1
Ceil(a, b) == IF a % b = 0 THEN a \div b ELSE (a \div b) + 1

\* np.arange(start, stop, step) for step >= 1, as a 0-based array
ArangeLen(start, stop, step) == IF stop > start THEN Ceil(stop - start, step) ELSE 0

Arange(start, stop, step) ==
    [j \in 0 .. ArangeLen(start, stop, step) - 1 |-> start + j * step]

Length(a) == Cardinality(DOMAIN a)

RECURSIVE SumTo(_, _)
SumTo(f, n) == IF n < 0 THEN 0 ELSE f[n] + SumTo(f, n - 1)

\* sum of a 0-based array
SumAll(a) == SumTo(a, Length(a) - 1)

(***************************************************************************)
(* ParLoop._get_plan                                                       *)
(***************************************************************************)
FakePlanNelemsFull(part, partition_size, i) == partition_size

FakePlanNelemsSwapped(part, partition_size, i) ==
    Min2(partition_size, part.size - i)

\* nelems[i] of FakePlan
FakePlanNelems(part, partition_size, i) ==
    Min2(partition_size, part.size - i * partition_size)

FakePlanNblocksFloor(part, partition_size) == part.size \div partition_size

\* nblocks of FakePlan
FakePlanNblocks(part, partition_size) == Ceil(part.size, partition_size)

FakePlan(part, partition_size) ==
    LET nblocks == FakePlanNblocks(part, partition_size)
    IN  [nblocks |-> nblocks,
         ncolors |-> 1,
         ncolblk |-> [j \in 0 .. 0 |-> nblocks],
         blkmap  |-> [j \in 0 .. nblocks - 1 |-> j],
         nelems  |-> [j \in 0 .. nblocks - 1 |->
                          FakePlanNelems(part, partition_size, j)],
         offset  |-> Arange(part.offset, part.offset + part.size, partition_size)]

\* the locations the iterations lo .. hi-1 write through the map
Targets(m, lo, hi) == UNION {m[i] : i \in lo .. hi - 1}

\* the ways of cutting 0 .. n-1 into contiguous blocks of at most
\* partition_size iterations: the sets of block starts
BlockStarts(n, partition_size) ==
    {S \in SUBSET (0 .. n - 1) :
        /\ n > 0 => 0 \in S
        /\ \A s \in S : \E e \in (S \cup {n}) :
              /\ e > s
              /\ e - s <= partition_size
              /\ \A x \in S : ~(s < x /\ x < e)}

\* the j-th (0-based) smallest element of a finite set of integers
RECURSIVE Nth(_, _)
Nth(S, j) ==
    LET lo == CHOOSE x \in S : \A y \in S : x <= y
    IN  IF j = 0 THEN lo ELSE Nth(S \ {lo}, j - 1)

BlockStart(S, j) == Nth(S, j)

\* the blocks of a cut S of the part: absolute first iteration and length
BlockOffset(part, S) ==
    [j \in 0 .. Cardinality(S) - 1 |-> part.offset + BlockStart(S, j)]

BlockNelems(part, S) ==
    [j \in 0 .. Cardinality(S) - 1 |->
        (IF j = Cardinality(S) - 1 THEN part.size ELSE BlockStart(S, j + 1))
            - BlockStart(S, j)]

\* the colorings of the blocks of S: the colors used are 0 .. ncolors-1 and two
\* distinct blocks of one color write disjoint sets of locations
Colorings(part, m, S) ==
    LET nb  == Cardinality(S)
        off == BlockOffset(part, S)
        nel == BlockNelems(part, S)
        tgt == [j \in 0 .. nb - 1 |-> Targets(m, off[j], off[j] + nel[j])]
    IN  {col \in [0 .. nb - 1 -> 0 .. nb - 1] :
            /\ \A k \in 0 .. nb - 1 :
                  (\E j \in 0 .. nb - 1 : col[j] = k) =>
                      \A k2 \in 0 .. k : \E j \in 0 .. nb - 1 : col[j] = k2
            /\ \A x, y \in 0 .. nb - 1 :
                  (x # y /\ col[x] = col[y]) => tgt[x] \cap tgt[y] = {}}

\* the orders of the blocks that are sorted by color
BlkMaps(nb, col) ==
    {bm \in [0 .. nb - 1 -> 0 .. nb - 1] :
        /\ \A x, y \in 0 .. nb - 1 : x # y => bm[x] # bm[y]
        /\ \A x, y \in 0 .. nb - 1 : x < y => col[bm[x]] <= col[bm[y]]}

PlanRecord(part, S, col, bm) ==
    LET nb == Cardinality(S)
        nc == Cardinality({col[j] : j \in 0 .. nb - 1})
    IN  [nblocks |-> nb,
         ncolors |-> nc,
         ncolblk |-> [k \in 0 .. nc - 1 |->
                         Cardinality({j \in 0 .. nb - 1 : col[j] = k})],
         blkmap  |-> bm,
         nelems  |-> BlockNelems(part, S),
         offset  |-> BlockOffset(part, S)]

\* plan.Plan(part, ..., partition_size, matrix_coloring=True, staging=False,
\* thread_coloring=False): any plan that satisfies the invariants of a
\* partition plan for the part and the map
ColoredPlans(part, m, partition_size) ==
    UNION {UNION {{PlanRecord(part, S, col, bm) :
                      bm \in BlkMaps(Cardinality(S), col)} :
                  col \in Colorings(part, m, S)} :
           S \in BlockStarts(part.size, partition_size)}

\* ParLoop._get_plan: the plans it may return
_get_plan(indirect, part, m, partition_size) ==
    IF indirect
    THEN ColoredPlans(part, m, partition_size)
    ELSE {FakePlan(part, partition_size)}

\* ParLoop._is_indirect, inherited: the loop has an argument that is
\* addressed through a map, a matrix argument included
ParLoop_is_indirect(arg_indirect, arg_mat) == arg_indirect \/ arg_mat

\* the keyword arguments of the call of _plan.Plan
PlanOptions ==
    [matrix_coloring |-> TRUE, staging |-> FALSE, thread_coloring |-> FALSE]

NoOptions == [matrix_coloring |-> FALSE, staging |-> FALSE,
              thread_coloring |-> FALSE]

_get_plan_request_uncolored(indirect) ==
    IF indirect
    THEN [collaborator |-> TRUE, options |-> NoOptions]
    ELSE [collaborator |-> FALSE, options |-> NoOptions]

\* ParLoop._get_plan: whether the plan is requested from the coloring
\* collaborator, and with which options
_get_plan_request(indirect) ==
    IF indirect
    THEN [collaborator |-> TRUE, options |-> PlanOptions]
    ELSE [collaborator |-> FALSE, options |-> NoOptions]

\* ParLoop._requires_matrix_coloring
_requires_matrix_coloring == TRUE

(***************************************************************************)
(* The global reduction: Arg.c_reduction_init, Arg.c_reduction_finalisation *)
(* and the kernel.                                                         *)
(***************************************************************************)
\* Arg.padding: the length of a thread's row, in elements; cdim and itemsize
\* are integers and / is the integer division
padding(cdim, itemsize) ==
    (_padding * ((cdim \div _padding) + 1)) * (_padding \div itemsize)

\* Arg.c_reduction_init: the indices i at which the loop reads the global
\* (for ( int i = 0; i < padding; i++ ) name_l[tid][i] = name[i])
c_reduction_init_reads(acc, cdim, itemsize) ==
    IF acc = INC THEN {} ELSE 0 .. padding(cdim, itemsize) - 1

\* Arg.c_reduction_finalisation: the indices i at which the loop reads and
\* writes the global (for ( int i = 0; i < cdim; i++ ) combine)
c_reduction_finalisation_indices(cdim) == 0 .. cdim - 1

c_reduction_init_global(acc, g) == g

\* Arg.c_reduction_init: the value a thread's row starts from; g is the
\* current value of the global
c_reduction_init(acc, g) == IF acc = INC THEN 0 ELSE g

c_reduction_combine_assign(acc, g, local) == local

c_reduction_combine_swapped(acc, g, local) ==
    IF acc = INC THEN g + local
    ELSE IF acc = MIN THEN (IF g > local THEN g ELSE local)
    ELSE (IF g < local THEN g ELSE local)

\* the combine expression of Arg.c_reduction_finalisation
c_reduction_combine(acc, g, local) ==
    IF acc = INC THEN g + local
    ELSE IF acc = MIN THEN (IF g < local THEN g ELSE local)
    ELSE (IF g > local THEN g ELSE local)

c_reduction_finalisation_done_early(thread, nt) == thread >= nt - 1

\* Arg.c_reduction_finalisation: the loop over the threads is over
\* (for ( int thread = 0; thread < nthread; thread++ ))
c_reduction_finalisation_done(thread, nt) == ~(thread < nt)

\* the value iteration i contributes to the reduction
Contribution(i) == (i * 2) % 5

\* one kernel invocation for iteration i on the reduction argument r it is
\* handed: an INC kernel adds its contribution, a MIN (MAX) kernel keeps the
\* smaller (larger) of r and its contribution
Kernel(acc, r, i) ==
    IF acc = INC THEN r + Contribution(i)
    ELSE IF acc = MIN THEN Min2(r, Contribution(i))
    ELSE (IF r > Contribution(i) THEN r ELSE Contribution(i))

\* the kernel invoked for i = lo, lo+1, .. , hi-1 in this order, starting from
\* r0. The range is halved to keep the depth of the evaluation logarithmic;
\* the invocations are still applied in increasing order of i: a = <<r, l, h>>
KernelRange(acc, r0, lo, hi) ==
    LET f[a \in Int \X Int \X Int] ==
            IF a[2] >= a[3] THEN a[1]
            ELSE IF a[3] = a[2] + 1 THEN Kernel(acc, a[1], a[2])
            ELSE LET mid == a[2] + ((a[3] - a[2]) \div 2)
                 IN  f[<<f[<<a[1], a[2], mid>>], mid, a[3]>>]
    IN  f[<<r0, lo, hi>>]

KernelLoopHiInclusive(efirst, nelem) == efirst + nelem + 1

\* the bound of the kernel loop: for (i = efirst; i < efirst + nelem; i++)
KernelLoopHi(efirst, nelem) == efirst + nelem

\* the sequential reference: the kernel run over the parts ps[1..n] in order
RECURSIVE Sequential(_, _, _, _)
Sequential(acc, g, ps, n) ==
    IF n = 0 THEN g
    ELSE KernelRange(acc, Sequential(acc, g, ps, n - 1),
                     ps[n].offset, ps[n].offset + ps[n].size)

(***************************************************************************)
(* The team and the static schedule of the block loop.                     *)
(***************************************************************************)
Team == 0 .. nthread - 1

\* the bound of the block loop: __b < boffset + nblocks
LoopEnd == jit_args.boffset + jit_args.nblocks

StaticLoWholeLoop(t) == jit_args.boffset

StaticLoNoRemainder(t) ==
    jit_args.boffset + t * ((LoopEnd - jit_args.boffset) \div nthread)

\* #pragma omp for schedule(static): the iterations boffset .. LoopEnd-1 are
\* cut into at most one contiguous chunk per thread, the first (n % nthread)
\* threads taking one iteration more; StaticLo(t) is the first iteration of
\* thread t and StaticHi(t) the end of its chunk
StaticLo(t) ==
    LET n == LoopEnd - jit_args.boffset
        q == n \div nthread
        r == n % nthread
    IN  jit_args.boffset + (IF t < r THEN t * (q + 1) ELSE t * q + r)

StaticHi(t) ==
    LET n == LoopEnd - jit_args.boffset
        q == n \div nthread
        r == n % nthread
    IN  StaticLo(t) + (IF t < r THEN q + 1 ELSE q)

NoBlock == [b |-> -1, bid |-> -1, efirst |-> 0, nelem |-> 0]

IsIdle(t) == StaticLo(t) >= StaticHi(t)

Rank(p) == IF p = "init" THEN 0 ELSE IF p = "loop" THEN 1
           ELSE IF p = "barrier" THEN 2 ELSE 3

\* Threads that own no block of the call are interchangeable (same row, same
\* steps): of these only the lowest one that has not yet taken a step may
\* take it. Threads that own a block interleave freely.
MayStep(t) ==
    IsIdle(t) =>
        \A u \in Team : (u < t /\ IsIdle(u)) =>
            IF Rank(tpc[t]) < 2 THEN Rank(tpc[u]) >= 2 ELSE Rank(tpc[u]) = 3

NoBarrier == TRUE

\* the implicit barrier at the end of the omp for: every thread of the team
\* has left the block loop
BarrierPassed == \A u \in Team : tpc[u] \in {"barrier", "done"}

(***************************************************************************)
(* Initial states: the inputs of one loop invocation.                      *)
(***************************************************************************)
Locs == 0 .. NumLocs - 1

DirectSizes ==
    {0, 1} \cup {part_size * k : k \in 1 .. MaxBlocks - 1}
           \cup {part_size * k + 1 : k \in 1 .. MaxBlocks - 1}

IndirectSizes == 0 .. MaxIndSize

RECURSIVE SizeSum(_, _)
SizeSum(ss, n) == IF n = 0 THEN 0 ELSE ss[n] + SizeSum(ss, n - 1)

\* consecutive parts of the given sizes, the first at offset 0
PartsOf(ss) ==
    [j \in 1 .. Len(ss) |-> [offset |-> SizeSum(ss, j - 1), size |-> ss[j]]]

SizeSeqs(sizes) == UNION {[1 .. n -> sizes] : n \in 1 .. MaxParts}

TotalSize(ps) ==
    IF Len(ps) = 0 THEN 0 ELSE ps[Len(ps)].offset + ps[Len(ps)].size

NoPlan == [nblocks |-> 0, ncolors |-> 0, ncolblk |-> <<>>, blkmap |-> <<>>,
           nelems |-> <<>>, offset |-> <<>>]

NoProbe == [part |-> [offset |-> 0, size |-> 0], partition_size |-> 0,
            plan |-> NoPlan, built |-> FALSE]

GlobalInits == {1, 3}

\* the kernel fails at no iteration
NoFault == -1

InitState ==
    /\ gbl = gbl0
    /\ pc = "idle"
    /\ ipart = 0
    /\ plan = NoPlan
    /\ c = 0
    /\ boffset = 0
    /\ jit_args = [boffset |-> 0, nblocks |-> 0, blkmap |-> <<>>,
                   offset |-> <<>>, nelems |-> <<>>]
    /\ tpc = [t \in Team |-> "none"]
    /\ bnext = [t \in Team |-> 0]
    /\ cur = [t \in Team |-> NoBlock]
    /\ row = [t \in Team |-> 0]
    /\ log = EmptyBag
    /\ nplans = 0
    /\ ncalls = 0
    /\ nwb = 0

InitLoop(threadCounts) ==
    /\ nthread \in threadCounts
    /\ access \in {INC, MIN, MAX}
    /\ gbl0 \in GlobalInits
    /\ is_indirect \in BOOLEAN
    /\ \/ /\ ~is_indirect
          /\ parts \in {PartsOf(ss) : ss \in SizeSeqs(DirectSizes)}
          /\ map = <<>>
       \/ /\ is_indirect
          /\ parts \in {PartsOf(ss) :
                          ss \in {x \in SizeSeqs(IndirectSizes) :
                                     SizeSum(x, Len(x)) <= MaxIndSize}}
          /\ map \in [0 .. TotalSize(parts) - 1 -> {{l} : l \in Locs}]
    /\ InitState
    /\ probe = NoProbe

\* a loop invocation with a kernel that does not fail
InitWith(threadCounts) ==
    /\ InitLoop(threadCounts)
    /\ fault_at = NoFault

Init == InitWith(1 .. MaxThreads)

(***************************************************************************)
(* ParLoop._compute                                                        *)
(***************************************************************************)
HasWorkAlways(part) == part.size >= 0

\* if part.size > 0
HasWork(part) == part.size > 0

ColorsLeftFirstOnly(k, ncolors) == k < 1

\* for c in range(plan.ncolors): the loop has a pass for c = k
ColorsLeft(k, ncolors) == k < ncolors

NextBoffsetByOne(b, n) == b + 1

NextBoffsetStuck(b, n) == b

\* boffset += nblocks
NextBoffset(b, n) == b + n

\* _compute(part) for an empty part: nothing is done
ComputeSkip ==
    /\ pc = "idle"
    /\ ipart < Len(parts)
    /\ ~HasWork(parts[ipart + 1])
    /\ ipart' = ipart + 1
    /\ UNCHANGED <<inputs, gbl, pc, plan, c, boffset, jit_args, tpc, bnext, cur,
                   row, log, nplans, ncalls, nwb, probe>>

\* _compute(part) up to the color loop: the plan is requested and bound
ComputeEnter ==
    /\ pc = "idle"
    /\ ipart < Len(parts)
    /\ HasWork(parts[ipart + 1])
    /\ \E p \in _get_plan(is_indirect, parts[ipart + 1], map, part_size) :
          /\ plan' = p
          /\ jit_args' = [jit_args EXCEPT !.blkmap = p.blkmap,
                                          !.offset = p.offset,
                                          !.nelems = p.nelems]
    /\ boffset' = 0
    /\ c' = 0
    /\ pc' = "colors"
    /\ nplans' = nplans + 1
    /\ UNCHANGED <<inputs, gbl, ipart, tpc, bnext, cur, row, log, ncalls, nwb,
                   probe>>

\* one pass of the color loop up to the call of the wrapper, and the wrapper
\* up to the fork of its parallel region
ColorCall ==
    /\ pc = "colors"
    /\ ColorsLeft(c, plan.ncolors)
    /\ jit_args' = [jit_args EXCEPT !.boffset = boffset,
                                    !.nblocks = plan.ncolblk[c]]
    /\ tpc' = [t \in Team |-> "init"]
    /\ pc' = "call"
    /\ ncalls' = ncalls + 1
    /\ UNCHANGED <<inputs, gbl, ipart, plan, c, boffset, bnext, cur, row, log,
                   nplans, nwb, probe>>

\* the join of the region, the return of the wrapper and the end of the pass
WrapperReturn ==
    /\ pc = "call"
    /\ \A t \in Team : tpc[t] = "done"
    /\ boffset' = NextBoffset(boffset, jit_args.nblocks)
    /\ c' = c + 1
    /\ pc' = "colors"
    /\ tpc' = [t \in Team |-> "none"]
    /\ bnext' = [t \in Team |-> 0]
    /\ row' = [t \in Team |-> 0]
    /\ UNCHANGED <<inputs, gbl, ipart, plan, jit_args, cur, log, nplans, ncalls,
                   nwb, probe>>

\* the color loop is over: _compute returns and the caller goes to the next part
ComputeReturn ==
    /\ pc = "colors"
    /\ ~ColorsLeft(c, plan.ncolors)
    /\ ipart' = ipart + 1
    /\ pc' = "idle"
    /\ UNCHANGED <<inputs, gbl, plan, c, boffset, jit_args, tpc, bnext, cur, row,
                   log, nplans, ncalls, nwb, probe>>

(***************************************************************************)
(* JITModule._wrapper: the threads of the parallel region                  *)
(***************************************************************************)
\* tid = omp_get_thread_num(); the intermediate global of the thread is
\* declared and initialised; the thread takes its chunk of the block loop
ThreadInit(t) ==
    /\ pc = "call"
    /\ tpc[t] = "init"
    /\ MayStep(t)
    /\ row' = [row EXCEPT ![t] = c_reduction_init(access, gbl)]
    /\ bnext' = [bnext EXCEPT ![t] = StaticLo(t)]
    /\ tpc' = [tpc EXCEPT ![t] = "loop"]
    /\ UNCHANGED <<inputs, gbl, pc, ipart, plan, c, boffset, jit_args, cur, log,
                   nplans, ncalls, nwb, probe>>

\* the head of the body of the block loop: bid, nelem and efirst are read
BlockBegin(t) ==
    /\ pc = "call"
    /\ tpc[t] = "loop"
    /\ cur[t] = NoBlock
    /\ bnext[t] < StaticHi(t)
    /\ LET bid == jit_args.blkmap[bnext[t]]
       IN  cur' = [cur EXCEPT ![t] = [b      |-> bnext[t],
                                      bid    |-> bid,
                                      efirst |-> jit_args.offset[bid],
                                      nelem  |-> jit_args.nelems[bid]]]
    /\ UNCHANGED <<inputs, gbl, pc, ipart, plan, c, boffset, jit_args, tpc, bnext,
                   row, log, nplans, ncalls, nwb, probe>>

\* the kernel fails at an iteration of lo .. hi-1
KernelFails(lo, hi) == lo <= fault_at /\ fault_at < hi

\* the kernel loop of the block, the kernel working on the thread's row. The
\* kernel call is a statement: the wrapper reads no status of the kernel, and
\* after a failure that leaves the process running the loop goes on
BlockEnd(t) ==
    /\ pc = "call"
    /\ tpc[t] = "loop"
    /\ cur[t] # NoBlock
    /\ LET hi == KernelLoopHi(cur[t].efirst, cur[t].nelem)
       IN  /\ row' = [row EXCEPT ![t] =
                         KernelRange(access, row[t], cur[t].efirst, hi)]
           /\ log' = log (+) SetToBag({[part |-> ipart, c |-> c, b |-> cur[t].b,
                                        bid |-> cur[t].bid, tid |-> t,
                                        lo |-> cur[t].efirst, hi |-> hi,
                                        fault |-> KernelFails(cur[t].efirst, hi)]})
    /\ cur' = [cur EXCEPT ![t] = NoBlock]
    /\ bnext' = [bnext EXCEPT ![t] = bnext[t] + 1]
    /\ UNCHANGED <<inputs, gbl, pc, ipart, plan, c, boffset, jit_args, tpc,
                   nplans, ncalls, nwb, probe>>

\* the thread has run its chunk and waits at the barrier that ends the loop
LoopExit(t) ==
    /\ pc = "call"
    /\ tpc[t] = "loop"
    /\ cur[t] = NoBlock
    /\ bnext[t] >= StaticHi(t)
    /\ MayStep(t)
    /\ tpc' = [tpc EXCEPT ![t] = "barrier"]
    /\ UNCHANGED <<inputs, gbl, pc, ipart, plan, c, boffset, jit_args, bnext, cur,
                   row, log, nplans, ncalls, nwb, probe>>

\* the write-back of the thread's intermediate global into the global, one
\* thread at a time
Writeback(t) ==
    /\ pc = "call"
    /\ tpc[t] = "barrier"
    /\ BarrierPassed
    /\ MayStep(t)
    /\ gbl' = c_reduction_combine(access, gbl, row[t])
    /\ nwb' = nwb + 1
    /\ tpc' = [tpc EXCEPT ![t] = "done"]
    /\ UNCHANGED <<inputs, pc, ipart, plan, c, boffset, jit_args, bnext, cur, row,
                   log, nplans, ncalls, probe>>

Next ==
    \/ ComputeSkip
    \/ ComputeEnter
    \/ ColorCall
    \/ WrapperReturn
    \/ ComputeReturn
    \/ \E t \in Team : ThreadInit(t)
    \/ \E t \in Team : BlockBegin(t)
    \/ \E t \in Team : BlockEnd(t)
    \/ \E t \in Team : LoopExit(t)
    \/ \E t \in Team : Writeback(t)

Spec == Init /\ [][Next]_vars

\* indirect invocations; the interpreter goes on with _compute and every
\* thread of a team runs until the region is joined: a step that can be
\* taken is eventually taken
InitLive ==
    /\ InitWith(1 .. MaxThreads)
    /\ is_indirect
    /\ access = INC
    /\ gbl0 = 1

SpecLive == InitLive /\ [][Next]_vars /\ WF_vars(Next)

\* direct invocations over an empty part and a part of several blocks
InitStatic ==
    /\ nthread \in 1 .. MaxStaticThreads
    /\ access = INC
    /\ gbl0 = 1
    /\ is_indirect = FALSE
    /\ parts \in {PartsOf(<<0, part_size * k>>) : k \in 1 .. MaxStaticBlocks}
    /\ map = <<>>
    /\ fault_at = NoFault
    /\ InitState
    /\ probe = NoProbe

SpecStatic == InitStatic /\ [][Next]_vars

(***************************************************************************)
(* Invocations with a kernel that fails at one iteration.                  *)
(***************************************************************************)
\* a failure of the kernel that ends the process (a signal, an exception
\* that leaves the parallel region): every thread stops and the caller gets
\* no report
KernelAbort(t) ==
    /\ pc = "call"
    /\ tpc[t] = "loop"
    /\ cur[t] # NoBlock
    /\ KernelFails(cur[t].efirst, KernelLoopHi(cur[t].efirst, cur[t].nelem))
    /\ pc' = "aborted"
    /\ UNCHANGED <<inputs, gbl, ipart, plan, c, boffset, jit_args, tpc, bnext,
                   cur, row, log, nplans, ncalls, nwb, probe>>

InitFault ==
    /\ InitLoop(1 .. MaxThreads)
    /\ is_indirect
    /\ access = INC
    /\ gbl0 = 1
    /\ fault_at \in 0 .. TotalSize(parts) - 1

NextFault ==
    \/ Next
    \/ \E t \in Team : KernelAbort(t)

SpecFault == InitFault /\ [][NextFault]_vars

\* direct one-part invocations under a runtime that reports one thread more
\* than _max_threads
InitOver ==
    /\ InitWith({_max_threads + 1})
    /\ ~is_indirect
    /\ Len(parts) = 1
    /\ gbl0 = 1

SpecOver == InitOver /\ [][Next]_vars

(***************************************************************************)
(* _get_plan as a function of the part and the partition size.             *)
(***************************************************************************)
ProbeInputs ==
    {[part |-> [offset |-> o, size |-> n], partition_size |-> ps,
      plan |-> NoPlan, built |-> FALSE] :
        o \in 0 .. MaxProbeOffset, n \in 1 .. MaxProbeSize,
        ps \in 1 .. MaxProbePartSize}

InitPlan ==
    /\ nthread = 1
    /\ is_indirect = FALSE
    /\ access = INC
    /\ parts = <<>>
    /\ map = <<>>
    /\ gbl0 = 0
    /\ fault_at = NoFault
    /\ InitState
    /\ probe \in ProbeInputs

\* plan = self._get_plan(part, partition_size) of a loop with direct
\* arguments only
PlanProbe ==
    /\ ~probe.built
    /\ \E p \in _get_plan(FALSE, probe.part, <<>>, probe.partition_size) :
          probe' = [probe EXCEPT !.plan = p, !.built = TRUE]
    /\ UNCHANGED <<inputs, gbl, pc, ipart, plan, c, boffset, jit_args, tpc, bnext,
                   cur, row, log, nplans, ncalls, nwb>>

NextPlan == PlanProbe

SpecPlan == InitPlan /\ [][NextPlan]_vars

(***************************************************************************)
(* The selection of the plan as a function of the arguments of the loop.   *)
(***************************************************************************)
SelectInputs ==
    {[part |-> [offset |-> 0, size |-> n], partition_size |-> ps,
      arg_indirect |-> ai, arg_mat |-> am,
      request |-> _get_plan_request(FALSE), requires_matrix_coloring |-> FALSE,
      plan |-> NoPlan, built |-> FALSE] :
        n \in 1 .. MaxIndSize, ps \in 1 .. MaxSelectPartSize,
        ai \in BOOLEAN, am \in BOOLEAN}

InitSelect ==
    /\ nthread = 1
    /\ probe \in SelectInputs
    /\ is_indirect = ParLoop_is_indirect(probe.arg_indirect, probe.arg_mat)
    /\ access = INC
    /\ parts = <<probe.part>>
    /\ map \in [0 .. probe.part.size - 1 -> {{l} : l \in Locs}]
    /\ gbl0 = 0
    /\ fault_at = NoFault
    /\ InitState

\* plan = self._get_plan(part, partition_size), and the capability
\* _requires_matrix_coloring of the loop
SelectProbe ==
    /\ ~probe.built
    /\ \E p \in _get_plan(is_indirect, probe.part, map, probe.partition_size) :
          probe' = [probe EXCEPT
                       !.plan = p,
                       !.request = _get_plan_request(is_indirect),
                       !.requires_matrix_coloring = _requires_matrix_coloring,
                       !.built = TRUE]
    /\ UNCHANGED <<inputs, gbl, pc, ipart, plan, c, boffset, jit_args, tpc, bnext,
                   cur, row, log, nplans, ncalls, nwb>>

NextSelect == SelectProbe

SpecSelect == InitSelect /\ [][NextSelect]_vars

(***************************************************************************)
(* The generators of the reduction buffer as functions of the argument:    *)
(* its cardinality, the size of its elements and its access descriptor.    *)
(***************************************************************************)
\* dtype.itemsize of the numpy types of 1, 2, 4, 8 and 16 bytes
ItemSizes == {1, 2, 4, 8, 16}

PadInputs ==
    {[cdim |-> d, itemsize |-> sz, dim |-> 0, init_reads |-> {},
      fin_indices |-> {}, built |-> FALSE] :
        d \in 1 .. MaxCdim, sz \in ItemSizes}

InitPad ==
    /\ nthread = 1
    /\ is_indirect = FALSE
    /\ access \in {INC, MIN, MAX}
    /\ parts = <<>>
    /\ map = <<>>
    /\ gbl0 = 0
    /\ fault_at = NoFault
    /\ InitState
    /\ probe \in PadInputs

\* generate_code: the declaration, the initialisation and the finalisation of
\* the reduction buffer of a global reduction argument are generated
PadProbe ==
    /\ ~probe.built
    /\ probe' = [probe EXCEPT
                    !.dim = padding(probe.cdim, probe.itemsize),
                    !.init_reads = c_reduction_init_reads(access, probe.cdim,
                                                          probe.itemsize),
                    !.fin_indices = c_reduction_finalisation_indices(probe.cdim),
                    !.built = TRUE]
    /\ UNCHANGED <<inputs, gbl, pc, ipart, plan, c, boffset, jit_args, tpc, bnext,
                   cur, row, log, nplans, ncalls, nwb>>

NextPad == PadProbe

SpecPad == InitPad /\ [][NextPad]_vars

(***************************************************************************)
(* The loops of the text of Arg.c_reduction_finalisation, on a global g of  *)
(* cdim elements and the rows local[thread] of the threads.                *)
(***************************************************************************)
FinInputs ==
    UNION {UNION {{[cdim |-> d, g0 |-> [j \in 0 .. d - 1 |-> 2],
                    g |-> [j \in 0 .. d - 1 |-> 2], local |-> l,
                    thread |-> 0, i |-> 0, trace |-> <<>>, nthread |-> nt,
                    built |-> FALSE] :
                      l \in [0 .. nt - 1 -> [0 .. d - 1 -> {1, 3}]]} :
                  d \in 1 .. MaxFinCdim} :
           nt \in 1 .. MaxFinThreads}

InitFin ==
    /\ probe \in FinInputs
    /\ nthread = probe.nthread
    /\ is_indirect = FALSE
    /\ access \in {INC, MIN, MAX}
    /\ parts = <<>>
    /\ map = <<>>
    /\ gbl0 = 0
    /\ fault_at = NoFault
    /\ InitState

FinUnchanged ==
    UNCHANGED <<inputs, gbl, pc, ipart, plan, c, boffset, jit_args, tpc, bnext,
                cur, row, log, nplans, ncalls, nwb>>

\* one pass of the inner loop: combine on element i of the row of thread
FinCombine ==
    /\ ~probe.built
    /\ ~c_reduction_finalisation_done(probe.thread, nthread)
    /\ probe.i < probe.cdim
    /\ probe' = [probe EXCEPT
                    !.g[probe.i] = c_reduction_combine(access, probe.g[probe.i],
                                       probe.local[probe.thread][probe.i]),
                    !.trace = Append(probe.trace, <<probe.thread, probe.i>>),
                    !.i = probe.i + 1]
    /\ FinUnchanged

\* the inner loop is over: thread++
FinNextThread ==
    /\ ~probe.built
    /\ ~c_reduction_finalisation_done(probe.thread, nthread)
    /\ ~(probe.i < probe.cdim)
    /\ probe' = [probe EXCEPT !.thread = probe.thread + 1, !.i = 0]
    /\ FinUnchanged

\* the loop over the threads is over
FinExit ==
    /\ ~probe.built
    /\ c_reduction_finalisation_done(probe.thread, nthread)
    /\ probe' = [probe EXCEPT !.built = TRUE]
    /\ FinUnchanged

NextFin ==
    \/ FinCombine
    \/ FinNextThread
    \/ FinExit

SpecFin == InitFin /\ [][NextFin]_vars

(***************************************************************************)
(* Properties                                                              *)
(***************************************************************************)
\* number of block executions logged for position p of the blkmap of part k
RECURSIVE CopiesOf(_)
CopiesOf(S) ==
    IF S = {} THEN 0
    ELSE LET r == CHOOSE x \in S : TRUE
         IN  CopiesIn(r, log) + CopiesOf(S \ {r})

Runs(k, p) == CopiesOf({r \in BagToSet(log) : r.part = k /\ r.b = p})

\* the color of position p of blkmap, from the counts ncolblk alone
ColorOfPos(pl, p) ==
    CHOOSE k \in 0 .. pl.ncolors - 1 :
        SumTo(pl.ncolblk, k - 1) <= p /\ p < SumTo(pl.ncolblk, k)

InFlight(t) == cur[t] # NoBlock

Done == pc = "idle" /\ ipart = Len(parts)

\* C1: while the wrapper runs for color c, every block in flight has color c,
\* every block of a lower color has completed and no block of a higher color
\* has started: blocks of two different colors are never in flight together,
\* and color c completes before color c+1 begins.
C1_ColorsDoNotOverlap ==
    pc = "call" =>
        /\ \A t \in Team : InFlight(t) => ColorOfPos(plan, cur[t].b) = c
        /\ \A t, u \in Team : (InFlight(t) /\ InFlight(u)) =>
              ColorOfPos(plan, cur[t].b) = ColorOfPos(plan, cur[u].b)
        /\ \A p \in DOMAIN plan.blkmap :
              /\ ColorOfPos(plan, p) < c =>
                    (Runs(ipart, p) = 1 /\ \A t \in Team : cur[t].b # p)
              /\ ColorOfPos(plan, p) > c =>
                    (Runs(ipart, p) = 0 /\ \A t \in Team : cur[t].b # p)

C1_Witness ==
    /\ pc = "call"
    /\ c = 1
    /\ \E t, u \in Team : t # u /\ InFlight(t) /\ InFlight(u)

\* the locations the block in flight on thread t writes through the map
WriteSet(t) ==
    IF InFlight(t)
    THEN Targets(map, cur[t].efirst, cur[t].efirst + cur[t].nelem)
    ELSE {}

\* C2: with a plan whose same-colored blocks write disjoint locations, two
\* threads never have blocks in flight that write a common location.
C2_NoConcurrentWriters ==
    is_indirect =>
        \A t, u \in Team : t # u => WriteSet(t) \cap WriteSet(u) = {}

C2_Witness ==
    /\ is_indirect
    /\ \E t, u \in Team : t # u /\ WriteSet(t) # {} /\ WriteSet(u) # {}

\* number of blocks of the plan pl that contain iteration i
Covering(pl, i) ==
    Cardinality({p \in DOMAIN pl.blkmap :
                    /\ pl.offset[pl.blkmap[p]] <= i
                    /\ i < pl.offset[pl.blkmap[p]] + pl.nelems[pl.blkmap[p]]})

\* C3: the degenerate plan of a part with size > 0 covers the part exactly:
\* every iteration of [part.offset, part.offset+part.size) lies in exactly one
\* block of blkmap and no block reaches outside the part.
C3_FakePlanCoversPart ==
    probe.built =>
        /\ \A p \in DOMAIN probe.plan.blkmap :
              /\ probe.plan.blkmap[p] \in DOMAIN probe.plan.offset
              /\ probe.plan.blkmap[p] \in DOMAIN probe.plan.nelems
              /\ probe.plan.nelems[probe.plan.blkmap[p]] >= 0
        /\ \A i \in (probe.part.offset - probe.partition_size - 1) ..
                    (probe.part.offset + probe.part.size
                        + probe.partition_size + 1) :
              Covering(probe.plan, i) =
                  (IF /\ probe.part.offset <= i
                      /\ i < probe.part.offset + probe.part.size
                   THEN 1 ELSE 0)

C3_Witness ==
    /\ probe.built
    /\ probe.plan.nblocks >= 3
    /\ probe.part.offset > 0
    /\ probe.part.size % probe.partition_size # 0

\* C4: when the color loop of a part is over, every entry of blkmap has been
\* dispatched exactly once, under the color its position has by ncolblk, and
\* the kernel loop of that block ran over offset[bid] .. offset[bid] +
\* nelems[bid] - 1; nothing else was dispatched for the part.
C4_EveryBlockOnce ==
    (pc = "colors" /\ c >= plan.ncolors) =>
        /\ SumAll(plan.ncolblk) = Length(plan.blkmap)
        /\ \A p \in DOMAIN plan.blkmap :
              /\ Runs(ipart, p) = 1
              /\ \A r \in BagToSet(log) : (r.part = ipart /\ r.b = p) =>
                    /\ r.c = ColorOfPos(plan, p)
                    /\ r.bid = plan.blkmap[p]
                    /\ r.lo = plan.offset[r.bid]
                    /\ r.hi = plan.offset[r.bid] + plan.nelems[r.bid]
        /\ \A r \in BagToSet(log) : r.part = ipart => r.b \in DOMAIN plan.blkmap

C4_Witness ==
    /\ pc = "colors"
    /\ c >= plan.ncolors
    /\ plan.ncolors >= 2
    /\ Length(plan.blkmap) >= 3
    /\ nthread >= 2

\* C5: the plan of an all-direct loop has one color, ncolblk = [n] with n the
\* least number of blocks of partition_size iterations that hold the part,
\* and every block has partition_size iterations except the last one, which
\* has the remainder, between 1 and partition_size.
C5_DegeneratePlan ==
    probe.built =>
        LET pl == probe.plan
            ps == probe.partition_size
            n  == CHOOSE k \in 1 .. probe.part.size :
                      k * ps >= probe.part.size /\ (k - 1) * ps < probe.part.size
        IN  /\ pl.ncolors = 1
            /\ pl.ncolblk = [j \in 0 .. 0 |-> n]
            /\ DOMAIN pl.nelems = 0 .. n - 1
            /\ \A j \in 0 .. n - 2 : pl.nelems[j] = ps
            /\ pl.nelems[n - 1] = probe.part.size - (n - 1) * ps
            /\ pl.nelems[n - 1] >= 1
            /\ pl.nelems[n - 1] <= ps

C5_Witness ==
    /\ probe.built
    /\ probe.plan.nblocks >= 2
    /\ probe.plan.nelems[probe.plan.nblocks - 1] < probe.partition_size
    /\ probe.plan.nelems[probe.plan.nblocks - 1] >= 1

\* C6: _compute on a part of size 0 requests no plan, does not call the
\* wrapper (no kernel invocation) and leaves the global unchanged.
C6_EmptyPartSkipped ==
    [][(pc = "idle" /\ ipart < Len(parts) /\ parts[ipart + 1].size = 0) =>
          (/\ nplans' = nplans
           /\ ncalls' = ncalls
           /\ log' = log
           /\ gbl' = gbl
           /\ pc' = "idle"
           /\ ipart' = ipart + 1)]_vars

C6_Witness ==
    /\ ipart >= 1
    /\ parts[1].size = 0
    /\ nplans = 0
    /\ gbl = gbl0

\* C7: after the invocation an INC global holds its initial value plus the
\* contributions of all iterations, the value of the sequential loop, for
\* every thread count up to _max_threads, every plan and every interleaving.
C7_IncReduction ==
    (access = INC /\ nthread <= _max_threads /\ Done) =>
        gbl = Sequential(INC, gbl0, parts, Len(parts))

C7_Witness ==
    /\ access = INC
    /\ Done
    /\ nthread >= 2
    /\ ncalls >= 2
    /\ gbl # gbl0

\* C8: a MIN (MAX) row starts from the current value of the global; after the
\* invocation the global is the sequential fold of min (max) over its initial
\* value and all contributions; the write-back of a thread that ran no block
\* leaves the global as it is.
C8_MinMaxReduction ==
    (access \in {MIN, MAX} /\ nthread <= _max_threads) =>
        /\ Done => gbl = Sequential(access, gbl0, parts, Len(parts))
        /\ pc = "call" =>
              \A t \in Team :
                  /\ (tpc[t] = "loop" /\ bnext[t] = StaticLo(t) /\ ~InFlight(t))
                        => row[t] = gbl
                  /\ (IsIdle(t) /\ tpc[t] \in {"loop", "barrier"}) =>
                        /\ access = MIN => row[t] >= gbl
                        /\ access = MAX => row[t] <= gbl

C8_Witness ==
    /\ access \in {MIN, MAX}
    /\ Done
    /\ nthread >= 2
    /\ nwb >= 3
    /\ gbl # gbl0

C10_ThreadCountValidated ==
    /\ nthread > _max_threads =>
          (ncalls = 0 /\ \A t \in Team : tpc[t] = "none")
    /\ \A t \in Team : t >= _max_threads => ~InFlight(t)

\* the cache line in bytes: _padding elements of _padding bytes
cache_line == _padding * _padding

\* C11: for a reduction argument of cardinality cdim >= 1 with elements of 1,
\* 2, 4, 8 or 16 bytes the row of a thread has at least cdim elements and its
\* size in bytes is a positive multiple of the cache line.
C11_PaddingRoundsUp ==
    probe.built =>
        /\ probe.dim >= probe.cdim
        /\ probe.dim * probe.itemsize > 0
        /\ (probe.dim * probe.itemsize) % cache_line = 0

\* C12: once the kernel has failed at an iteration of a block of color c of a
\* part, the invocation does not return normally from that part (it reports
\* the fault, not success) and the wrapper is not called for a later color.
C12_FaultPropagated ==
    \A r \in BagToSet(log) : r.fault =>
        /\ ipart = r.part
        /\ pc = "call" => c = r.c
        /\ \A r2 \in BagToSet(log) :
              r2.part < r.part \/ (r2.part = r.part /\ r2.c <= r.c)

\* the kernel run over the blocks of S, one block after the other
RECURSIVE FoldBlocks(_, _, _)
FoldBlocks(acc, g, S) ==
    IF S = {} THEN g
    ELSE LET r == CHOOSE x \in S : TRUE
         IN  FoldBlocks(acc, KernelRange(acc, g, r.lo, r.hi), S \ {r})

\* C13: the global accumulates across the parts of an invocation and across
\* the colors of a part: between two wrapper calls it holds the reduction of
\* its initial value with the iterations of all blocks run so far, and when a
\* part has been executed it holds the reduction over the iterations of all
\* parts up to that one; it is never reset.
C13_AccumulatesAcrossParts ==
    (nthread <= _max_threads /\ pc \in {"idle", "colors"}) =>
        /\ gbl = FoldBlocks(access, gbl0, BagToSet(log))
        /\ pc = "idle" => gbl = Sequential(access, gbl0, parts, ipart)
        /\ (pc = "colors" /\ c = 0) =>
              gbl = Sequential(access, gbl0, parts, ipart)

C13_Witness ==
    /\ Len(parts) = 2
    /\ pc = "idle"
    /\ ipart = 2
    /\ parts[1].size > 0
    /\ parts[2].size > 0
    /\ nthread >= 2
    /\ Sequential(access, gbl0, parts, 1) # gbl0
    /\ gbl # Sequential(access, gbl0, parts, 1)

\* the blocks b1 # b2 of the plan pl have no iteration in common
BlocksDisjoint(pl, b1, b2) ==
    \/ pl.offset[b1] + pl.nelems[b1] <= pl.offset[b2]
    \/ pl.offset[b2] + pl.nelems[b2] <= pl.offset[b1]

\* C14 as stated: for every block b of the plan of a part, offset[b] +
\* nelems[b] is at most the size of the part, and distinct blocks are
\* pairwise disjoint.
C14_BlocksWithinSize ==
    probe.built =>
        /\ \A b \in DOMAIN probe.plan.offset :
              probe.plan.offset[b] + probe.plan.nelems[b] <= probe.part.size
        /\ \A b1, b2 \in DOMAIN probe.plan.offset :
              b1 # b2 => BlocksDisjoint(probe.plan, b1, b2)

\* C14 amended: the offsets of a plan are absolute iteration numbers: every
\* block b is non-empty and lies in the part, part.offset <= offset[b] and
\* offset[b] + nelems[b] <= part.offset + part.size, and distinct blocks are
\* pairwise disjoint.
C14_BlocksWithinPart ==
    probe.built =>
        /\ DOMAIN probe.plan.offset = 0 .. probe.plan.nblocks - 1
        /\ DOMAIN probe.plan.nelems = 0 .. probe.plan.nblocks - 1
        /\ \A b \in DOMAIN probe.plan.offset :
              /\ probe.plan.nelems[b] >= 1
              /\ probe.part.offset <= probe.plan.offset[b]
              /\ probe.plan.offset[b] + probe.plan.nelems[b]
                    <= probe.part.offset + probe.part.size
        /\ \A b1, b2 \in DOMAIN probe.plan.offset :
              b1 # b2 => BlocksDisjoint(probe.plan, b1, b2)

C14_Witness ==
    /\ probe.built
    /\ probe.part.offset > 0
    /\ probe.plan.nblocks >= 2
    /\ \E b \in DOMAIN probe.plan.offset :
          probe.plan.offset[b] + probe.plan.nelems[b] > probe.part.size

\* the thread that runs iteration k (0-based) of a loop of n iterations cut
\* into nt contiguous chunks, in the order of the thread ids, the sizes of
\* which differ by at most one, the larger chunks first
ChunkOwner(n, nt, k) ==
    LET q == n \div nt
        r == n % nt
    IN  IF k < r * (q + 1) THEN k \div (q + 1)
        ELSE r + ((k - r * (q + 1)) \div q)

\* C15: within a color every block is run by one thread only, the one that
\* boffset, nblocks and the thread count give it: the threads take contiguous
\* chunks of the window in the order of their ids, whatever the interleaving.
C15_StaticAssignment ==
    pc \in {"call", "colors"} =>
        /\ \A r \in BagToSet(log) : r.part = ipart =>
              /\ CopiesIn(r, log) = 1
              /\ Runs(ipart, r.b) = 1
              /\ r.tid = ChunkOwner(plan.ncolblk[r.c], nthread,
                                    r.b - SumTo(plan.ncolblk, r.c - 1))
        /\ \A t \in Team : InFlight(t) =>
              /\ Runs(ipart, cur[t].b) = 0
              /\ \A u \in Team \ {t} : cur[u].b # cur[t].b
              /\ t = ChunkOwner(plan.ncolblk[c], nthread,
                                cur[t].b - SumTo(plan.ncolblk, c - 1))
        /\ \A r1, r2 \in BagToSet(log) :
              (r1.part = ipart /\ r2.part = ipart /\ r1.c = r2.c
                   /\ r1.b <= r2.b) => r1.tid <= r2.tid

C15_Witness ==
    /\ pc = "colors"
    /\ c = 1
    /\ nthread = 3
    /\ plan.ncolblk[0] = 4
    /\ \E r1, r2 \in BagToSet(log) :
          r1.tid = 0 /\ r2.tid = 0 /\ r1.b # r2.b
    /\ \E r \in BagToSet(log) : r.tid = 2

\* the number of parallel regions opened before the part being executed
RegionsBefore == ncalls - c - (IF pc = "call" THEN 1 ELSE 0)

C17_PlanSelection ==
    probe.built =>
        /\ ~probe.request.collaborator =>
              /\ ~probe.arg_indirect
              /\ ~probe.arg_mat
              /\ probe.plan.ncolors = 1
              /\ probe.plan.blkmap = [j \in 0 .. probe.plan.nblocks - 1 |-> j]
        /\ (probe.arg_indirect \/ probe.arg_mat) =>
              /\ probe.request.collaborator
              /\ probe.request.options.matrix_coloring
              /\ ~probe.request.options.staging
              /\ ~probe.request.options.thread_coloring
              /\ probe.requires_matrix_coloring

C17_Witness ==
    /\ probe.built
    /\ probe.arg_mat
    /\ ~probe.arg_indirect
    /\ probe.request.collaborator
    /\ probe.plan.ncolors >= 2

\* the reduction of g with the elements i of the rows of the threads 0 .. n-1
RowsReduced(acc, g, local, i, n) ==
    LET vals == {local[t][i] : t \in 0 .. n - 1}
        all  == vals \cup {g}
    IN  IF acc = INC
        THEN g + 3 * Cardinality({t \in 0 .. n - 1 : local[t][i] = 3})
               + Cardinality({t \in 0 .. n - 1 : local[t][i] = 1})
        ELSE IF acc = MIN THEN CHOOSE v \in all : \A w \in all : v <= w
        ELSE CHOOSE v \in all : \A w \in all : v >= w

C19_GlobalIndexedBelowCdim ==
    probe.built =>
        /\ \A i \in probe.init_reads : 0 <= i /\ i < probe.cdim
        /\ \A i \in probe.fin_indices : 0 <= i /\ i < probe.cdim

\* C20: at the call for color c the block offset is ncolblk[0] + .. +
\* ncolblk[c-1] and the window [boffset, boffset+nblocks) lies within blkmap
\* when the counts of ncolblk sum to the length of blkmap; the blocks run
\* under different colors come from disjoint windows; and the color loop of
\* a part eventually ends, with boffset equal to the number of blocks.
C20_BoffsetPrefixSums ==
    /\ [](pc \in {"colors", "call"} =>
            /\ boffset = SumTo(plan.ncolblk, c - 1)
            /\ pc = "call" =>
                  /\ jit_args.boffset = SumTo(plan.ncolblk, c - 1)
                  /\ jit_args.nblocks = plan.ncolblk[c]
                  /\ SumAll(plan.ncolblk) = Length(plan.blkmap) =>
                        /\ 0 <= jit_args.boffset
                        /\ jit_args.boffset + jit_args.nblocks
                              <= Length(plan.blkmap)
                        /\ \A b \in jit_args.boffset .. LoopEnd - 1 :
                              b \in DOMAIN jit_args.blkmap
            /\ \A r \in BagToSet(log) : r.part = ipart =>
                  /\ SumTo(plan.ncolblk, r.c - 1) <= r.b
                  /\ r.b < SumTo(plan.ncolblk, r.c)
            /\ \A r1, r2 \in BagToSet(log) :
                  (r1.part = ipart /\ r2.part = ipart /\ r1.c # r2.c) =>
                      r1.b # r2.b)
    /\ (pc = "colors") ~>
          (/\ pc = "colors"
           /\ c = plan.ncolors
           /\ boffset = Length(plan.blkmap)
           /\ boffset = SumAll(plan.ncolblk))

C20_Witness ==
    /\ pc = "colors"
    /\ c = plan.ncolors
    /\ plan.ncolors = 2
    /\ boffset = 3
    /\ nthread >= 2

====
